---- MODULE Spec2Model ----
(***************************************************************************)
(* Model of the PayPal payment processor                                   *)
(* (ecommerce/extensions/payment/processors/paypal.py) and of the          *)
(* assignment-email endpoint                                               *)
(* (ecommerce/extensions/api/v2/views/assignmentemail.py).                 *)
(*                                                                         *)
(* Text is a sequence of one-character strings, so that unicode(...) and   *)
(* Decimal(...) are computed digit by digit.  A Decimal is the triple      *)
(* (sign, coefficient, exponent) that Python's decimal module keeps.       *)
(***************************************************************************)
EXTENDS Integers, Sequences, FiniteSets, TLC

VARIABLES audit, source_types, event_types, last, pairs, executed, calls,
          outbox, last_post, posts

vars == <<audit, source_types, event_types, last, pairs, executed, calls,
          outbox, last_post, posts>>

paypal_vars == <<audit, source_types, event_types, last, pairs, executed, calls>>

email_vars == <<outbox, last_post, posts>>

(***************************************************************************)
(* Bounds                                                                  *)
(***************************************************************************)
MaxCalls == 2

MaxLines == 2

MaxLinks == 2

MaxTransactions == 2

MaxPosts == 1

(***************************************************************************)
(* Python values                                                           *)
(***************************************************************************)
None == [none |-> TRUE]

NAME == "paypal"

PAID == "paid"

Digits == <<"0", "1", "2", "3", "4", "5", "6", "7", "8", "9">>

IsDigit(c) == \E i \in 1..10 : Digits[i] = c

DigitValue(c) == (CHOOSE i \in 1..10 : Digits[i] = c) - 1

RECURSIVE Zeros(_)
Zeros(n) == IF n <= 0 THEN <<>> ELSE <<"0">> \o Zeros(n - 1)

Abs(n) == IF n < 0 THEN -n ELSE n

\* str(n) for a natural number n
RECURSIVE NatStr(_)
NatStr(n) == IF n < 10 THEN <<Digits[n + 1]>>
             ELSE NatStr(n \div 10) \o <<Digits[(n % 10) + 1]>>

\* unicode(n) for an int n
IntStr(n) == IF n < 0 THEN <<"-">> \o NatStr(-n) ELSE NatStr(n)

\* int(s) for a text s made of digits
RECURSIVE int_of_digits(_)
int_of_digits(s) == IF s = <<>> THEN 0
                    ELSE 10 * int_of_digits(SubSeq(s, 1, Len(s) - 1))
                         + DigitValue(s[Len(s)])

Dec(sign, coeff, exp) == [sign |-> sign, coeff |-> coeff, exp |-> exp]

InvalidOperation == [raised |-> "InvalidOperation"]

\* unicode(d) for a Decimal d: decimal.Decimal.__str__
DecimalStr(d) ==
    LET int        == NatStr(d.coeff)
        leftdigits == d.exp + Len(int)
        dotplace   == IF d.exp <= 0 /\ leftdigits > -6 THEN leftdigits ELSE 1
        intpart    == IF dotplace <= 0 THEN <<"0">>
                      ELSE IF dotplace >= Len(int)
                           THEN int \o Zeros(dotplace - Len(int))
                           ELSE SubSeq(int, 1, dotplace)
        fracpart   == IF dotplace <= 0 THEN <<".">> \o Zeros(-dotplace) \o int
                      ELSE IF dotplace >= Len(int) THEN <<>>
                           ELSE <<".">> \o SubSeq(int, dotplace + 1, Len(int))
        exppart    == IF leftdigits = dotplace THEN <<>>
                      ELSE <<"E", IF leftdigits - dotplace < 0 THEN "-" ELSE "+">>
                           \o NatStr(Abs(leftdigits - dotplace))
    IN  (IF d.sign = 1 THEN <<"-">> ELSE <<>>) \o intpart \o fracpart \o exppart

\* Decimal(s) for a text s of the form [sign] digits [. digits]
Decimal(s) ==
    LET signed == s # <<>> /\ s[1] \in {"-", "+"}
        body   == IF signed THEN Tail(s) ELSE s
        dots   == {i \in 1..Len(body) : body[i] = "."}
        dot    == IF dots = {} THEN Len(body) + 1 ELSE CHOOSE i \in dots : TRUE
        intpart  == SubSeq(body, 1, dot - 1)
        fracpart == SubSeq(body, dot + 1, Len(body))
        valid  == /\ Cardinality(dots) <= 1
                  /\ Len(intpart) + Len(fracpart) > 0
                  /\ \A i \in 1..Len(intpart) : IsDigit(intpart[i])
                  /\ \A i \in 1..Len(fracpart) : IsDigit(fracpart[i])
    IN  IF ~valid THEN InvalidOperation
        ELSE Dec(IF signed /\ s[1] = "-" THEN 1 ELSE 0,
                 int_of_digits(intpart \o fracpart),
                 -Len(fracpart))

(***************************************************************************)
(* Baskets                                                                 *)
(***************************************************************************)
Line(quantity, title, price, currency) ==
    [quantity |-> quantity, product |-> [title |-> title],
     price_incl_tax |-> price, stockrecord |-> [price_currency |-> currency]]

LinePool == <<Line(1, "Course X", Dec(0, 2500, -2), "USD"),
              Line(2, "Course Y", Dec(0, 5, -2), "USD"),
              Line(1, "Seat Z", Dec(0, 1999, -2), "USD")>>

RECURSIVE LinesTotal(_)
LinesTotal(lines) ==
    IF lines = <<>> THEN 0
    ELSE lines[1].quantity * lines[1].price_incl_tax.coeff + LinesTotal(Tail(lines))

\* the basket with n lines; the one-line basket is basket 42 of 25.00 USD
BasketOf(n) ==
    LET lines == [i \in 1..n |-> LinePool[((i - 1) % Len(LinePool)) + 1]]
    IN  [id |-> IF n = 1 THEN 42 ELSE 5 + n,
         currency |-> "USD",
         total_incl_tax |-> Dec(0, LinesTotal(lines), -2),
         lines |-> lines]

Baskets == {BasketOf(n) : n \in 1..MaxLines}

all_lines(basket) == basket.lines

(***************************************************************************)
(* The gateway's answers                                                   *)
(***************************************************************************)
PaymentIds == {"PAY-1", "PAY-2"}

\* the id the gateway gives a payment it creates
CreatedIds == {"PAY-1"}

DebugIds == {"ERR1"}

PayerIds == {"PAYER-1"}

Emails == {"buyer@example.com"}

Links == {[rel |-> "self", href |-> "https://gw/payment"],
          [rel |-> "approval_url", href |-> "https://gw/approve-a"],
          [rel |-> "approval_url", href |-> "https://gw/approve-b"]}

\* the sequences of at most n distinct elements of S
SeqsUpTo(S, n) ==
    UNION {{f \in [1..k -> S] : \A i, j \in 1..k : f[i] = f[j] => i = j} : k \in 0..n}

LinkLists == SeqsUpTo(Links, MaxLinks)

\* the Payment object after payment.create()
CreatedPayments ==
    {[ok |-> FALSE, id |-> "", links |-> <<>>, error |-> [debug_id |-> d]] :
        d \in DebugIds}
    \cup
    {[ok |-> TRUE, id |-> i, links |-> l, error |-> None] :
        i \in CreatedIds, l \in LinkLists}

Transactions == {[amount |-> [total |-> <<"2", "5", ".", "0", "0">>, currency |-> "USD"]],
                 [amount |-> [total |-> <<"0", ".", "1", "0">>, currency |-> "EUR"]]}

TransactionLists == SeqsUpTo(Transactions, MaxTransactions) \ {<<>>}

\* the gateway's answer to payment.execute(data)
ExecuteAnswers ==
    {[ok |-> FALSE, transactions |-> <<>>, payer |-> None,
      error |-> [debug_id |-> d]] : d \in DebugIds}
    \cup
    {[ok |-> TRUE, transactions |-> t,
      payer |-> [payer_info |-> [email |-> e]], error |-> None] :
        t \in TransactionLists, e \in Emails}

\* the query string PayPal appends to the return_url
ReturnQueries == {[PayerID |-> p, paymentId |-> i] : p \in PayerIds, i \in PaymentIds}

success(payment) == payment.ok

_get_error(payment) == payment.error

to_dict(payment) == [j \in DOMAIN payment \ {"ok", "error"} |-> payment[j]]

Event(kind, what) == [kind |-> kind, what |-> what]

(***************************************************************************)
(* BasePaymentProcessor.record_processor_response: one row appended to the *)
(* PaymentProcessorResponse table; the row is returned as the entry.       *)
(***************************************************************************)
record_processor_response(table, response, transaction_id, basket) ==
    Append(table, [id |-> Len(table) + 1,
                   processor_name |-> NAME,
                   transaction_id |-> transaction_id,
                   response |-> response,
                   basket |-> basket])

(***************************************************************************)
(* Paypal.get_transaction_parameters                                       *)
(***************************************************************************)
ecommerce_url_root == "https://ecommerce"

cancel_url == "https://ecommerce/cancel"

urljoin(root, path) == <<root, path>>

\* payment_data with every item priced at the basket total
payment_data_total_as_price(basket) ==
    [intent |-> "sale",
     redirect_urls |-> [return_url |-> urljoin(ecommerce_url_root, "paypal_execute"),
                        cancel_url |-> cancel_url],
     payer |-> [payment_method |-> "paypal"],
     transactions |-> <<
        [amount |-> [total |-> DecimalStr(basket.total_incl_tax),
                     currency |-> basket.currency],
         item_list |-> [items |->
            [i \in 1..Len(all_lines(basket)) |->
                LET line == all_lines(basket)[i]
                IN  [quantity |-> line.quantity,
                     name |-> line.product.title,
                     price |-> DecimalStr(basket.total_incl_tax),
                     currency |-> line.stockrecord.price_currency]]],
         invoice_number |-> IntStr(basket.id)] >>]

\* the creation payload
payment_data(basket) ==
    [intent |-> "sale",
     redirect_urls |-> [return_url |-> urljoin(ecommerce_url_root, "paypal_execute"),
                        cancel_url |-> cancel_url],
     payer |-> [payment_method |-> "paypal"],
     transactions |-> <<
        [amount |-> [total |-> DecimalStr(basket.total_incl_tax),
                     currency |-> basket.currency],
         item_list |-> [items |->
            [i \in 1..Len(all_lines(basket)) |->
                LET line == all_lines(basket)[i]
                IN  [quantity |-> line.quantity,
                     name |-> line.product.title,
                     price |-> DecimalStr(line.price_incl_tax),
                     currency |-> line.stockrecord.price_currency]]],
         invoice_number |-> IntStr(basket.id)] >>]

\* create_failure that raises without recording the gateway's error
create_failure_unrecorded(basket, payment, table) ==
    [outcome |-> "GatewayError",
     result  |-> None,
     table   |-> table,
     trace   |-> <<Event("log", "error"), Event("raise", "GatewayError")>>]

\* create_failure that records under the payment's id instead of the debug_id
create_failure_payment_id(basket, payment, table) ==
    LET error  == _get_error(payment)
        table2 == record_processor_response(table, error, payment.id, basket)
    IN  [outcome |-> "GatewayError",
         result  |-> None,
         table   |-> table2,
         trace   |-> <<Event("record", payment.id),
                       Event("log", "error"),
                       Event("raise", "GatewayError")>>]

\* "if not payment.success()": record the error, log, raise
create_failure(basket, payment, table) ==
    LET error  == _get_error(payment)
        table2 == record_processor_response(table, error, error.debug_id, basket)
    IN  [outcome |-> "GatewayError",
         result  |-> None,
         table   |-> table2,
         trace   |-> <<Event("record", error.debug_id),
                       Event("log", "error"),
                       Event("raise", "GatewayError")>>]

\* find_approval_url without the break: the last approval link wins
RECURSIVE find_approval_url_no_break(_)
find_approval_url_no_break(links) ==
    IF links = <<>> THEN None
    ELSE IF links[Len(links)].rel = "approval_url" THEN [href |-> links[Len(links)].href]
         ELSE find_approval_url_no_break(SubSeq(links, 1, Len(links) - 1))

\* find_approval_url that settles for the first link of any rel
find_approval_url_any_rel(links) ==
    IF links = <<>> THEN None ELSE [href |-> links[1].href]

\* "for link in payment.links: if link.rel == 'approval_url': ... break / else:"
RECURSIVE find_approval_url(_)
find_approval_url(links) ==
    IF links = <<>> THEN None
    ELSE IF links[1].rel = "approval_url" THEN [href |-> links[1].href]
         ELSE find_approval_url(Tail(links))

\* the payment was created: record it, then look for the approval link
create_success(basket, payment, table) ==
    LET table2 == record_processor_response(table, to_dict(payment), payment.id, basket)
        found  == find_approval_url(payment.links)
    IN  IF found = None
        THEN [outcome |-> "GatewayError",
              result  |-> None,
              table   |-> table2,
              trace   |-> <<Event("record", payment.id),
                            Event("log", "info"),
                            Event("log", "error"),
                            Event("raise", "GatewayError")>>]
        ELSE [outcome |-> "returned",
              result  |-> [payment_page_url |-> found.href],
              table   |-> table2,
              trace   |-> <<Event("record", payment.id),
                            Event("log", "info"),
                            Event("return", "parameters")>>]

\* payment is the Payment object as payment.create() leaves it
get_transaction_parameters(basket, payment, table) ==
    LET data == payment_data(basket)
        rest == IF ~success(payment)
                THEN create_failure(basket, payment, table)
                ELSE create_success(basket, payment, table)
    IN  [outcome |-> rest.outcome,
         result  |-> rest.result,
         table   |-> rest.table,
         data    |-> data,
         trace   |-> <<Event("gateway", "create")>> \o rest.trace]

(***************************************************************************)
(* Paypal.handle_processor_response                                        *)
(***************************************************************************)
\* execute_failure that asks the gateway a second time before giving up
execute_failure_retry(payment, basket, table) ==
    LET error  == _get_error(payment)
        table2 == record_processor_response(table, error, error.debug_id, basket)
    IN  [outcome |-> "GatewayError",
         result  |-> None,
         table   |-> table2,
         source_types |-> {},
         event_types  |-> {},
         trace   |-> <<Event("gateway", "execute"),
                       Event("record", error.debug_id),
                       Event("log", "error"),
                       Event("raise", "GatewayError")>>]

\* "if not payment.success()": record the error, log, raise
execute_failure(payment, basket, table) ==
    LET error  == _get_error(payment)
        table2 == record_processor_response(table, error, error.debug_id, basket)
    IN  [outcome |-> "GatewayError",
         result  |-> None,
         table   |-> table2,
         source_types |-> {},
         event_types  |-> {},
         trace   |-> <<Event("record", error.debug_id),
                       Event("log", "error"),
                       Event("raise", "GatewayError")>>]

\* payment_source_and_event reading the last transaction instead of the first
payment_source_and_event_last(payment) ==
    LET n              == Len(payment.transactions)
        currency       == payment.transactions[n].amount.currency
        total          == Decimal(payment.transactions[n].amount.total)
        transaction_id == payment.id
        email          == payment.payer.payer_info.email
    IN  [source |-> [source_type |-> NAME,
                     currency |-> currency,
                     amount_allocated |-> total,
                     amount_debited |-> total,
                     reference |-> transaction_id,
                     label |-> email,
                     card_type |-> None],
         event  |-> [event_type |-> PAID,
                     amount |-> total,
                     reference |-> transaction_id,
                     processor_name |-> NAME]]

\* the Source and the PaymentEvent of an executed payment
payment_source_and_event(payment) ==
    LET currency       == payment.transactions[1].amount.currency
        total          == Decimal(payment.transactions[1].amount.total)
        transaction_id == payment.id
        email          == payment.payer.payer_info.email
    IN  [source |-> [source_type |-> NAME,
                     currency |-> currency,
                     amount_allocated |-> total,
                     amount_debited |-> total,
                     reference |-> transaction_id,
                     label |-> email,
                     card_type |-> None],
         event  |-> [event_type |-> PAID,
                     amount |-> total,
                     reference |-> transaction_id,
                     processor_name |-> NAME]]

\* the payment was executed: record it, log (reading basket.id), build the pair
execute_success(payment, basket, table) ==
    LET table2 == record_processor_response(table, to_dict(payment), payment.id, basket)
    IN  IF basket = None
        THEN [outcome |-> "AttributeError",
              result  |-> None,
              table   |-> table2,
              source_types |-> {},
              event_types  |-> {},
              trace   |-> <<Event("record", payment.id),
                            Event("raise", "AttributeError")>>]
        ELSE [outcome |-> "returned",
              result  |-> payment_source_and_event(payment),
              table   |-> table2,
              source_types |-> {NAME},
              event_types  |-> {PAID},
              trace   |-> <<Event("record", payment.id),
                            Event("log", "info"),
                            Event("return", "source, event")>>]

\* response is the return query; answer is what the gateway says to execute
handle_processor_response(response, basket, answer, table) ==
    LET data    == [payer_id |-> response.PayerID]
        found   == [id |-> response.paymentId]
        payment == [ok |-> answer.ok, id |-> found.id,
                    transactions |-> answer.transactions,
                    payer |-> answer.payer, error |-> answer.error]
        rest    == IF ~success(payment)
                   THEN execute_failure(payment, basket, table)
                   ELSE execute_success(payment, basket, table)
    IN  [outcome |-> rest.outcome,
         result  |-> rest.result,
         table   |-> rest.table,
         source_types |-> rest.source_types,
         event_types  |-> rest.event_types,
         data    |-> data,
         trace   |-> <<Event("gateway", "find"), Event("gateway", "execute")>>
                     \o rest.trace]

(***************************************************************************)
(* State machine of the payment processor                                  *)
(***************************************************************************)
NoCall == [op |-> "none", basket |-> None, answer |-> None, outcome |-> "none",
           result |-> None, data |-> None, trace |-> <<>>]

\* what the caller received, when it is a (source, event) pair
Produced(result) == IF "source" \in DOMAIN result THEN <<result>> ELSE <<>>

Init ==
    /\ audit = <<>>
    /\ source_types = {}
    /\ event_types = {}
    /\ last = NoCall
    /\ pairs = <<>>
    /\ executed = 0
    /\ calls = 0
    /\ outbox = <<>>
    /\ last_post = None
    /\ posts = 0

initiate(basket, payment) ==
    /\ calls < MaxCalls
    /\ LET r == get_transaction_parameters(basket, payment, audit)
       IN  /\ audit' = r.table
           /\ last' = [op |-> "initiate", basket |-> basket, answer |-> payment,
                       outcome |-> r.outcome, result |-> r.result,
                       data |-> r.data, trace |-> r.trace]
           /\ pairs' = pairs \o Produced(r.result)
    /\ calls' = calls + 1
    /\ UNCHANGED <<source_types, event_types, executed, email_vars>>

confirm(response, basket, answer) ==
    /\ calls < MaxCalls
    /\ LET r == handle_processor_response(response, basket, answer, audit)
       IN  /\ audit' = r.table
           /\ source_types' = source_types \cup r.source_types
           /\ event_types' = event_types \cup r.event_types
           /\ last' = [op |-> "confirm", basket |-> basket,
                       answer |-> [query |-> response, gateway |-> answer],
                       outcome |-> r.outcome, result |-> r.result,
                       data |-> r.data, trace |-> r.trace]
           /\ pairs' = pairs \o Produced(r.result)
    /\ executed' = executed + (IF answer.ok THEN 1 ELSE 0)
    /\ calls' = calls + 1
    /\ UNCHANGED email_vars

Next ==
    \/ \E basket \in Baskets, payment \in CreatedPayments :
          initiate(basket, payment)
    \/ \E response \in ReturnQueries, basket \in Baskets \cup {None},
          answer \in ExecuteAnswers :
          confirm(response, basket, answer)

Spec == Init /\ [][Next]_vars

(***************************************************************************)
(* AssignmentEmail (api/v2/views/assignmentemail.py)                       *)
(***************************************************************************)
REQUIRED_PARAM_EMAIL == "user_email"

REQUIRED_PARAM_ENTERPRISE_NAME == "enterprise_name"

REQUIRED_PARAM_CODE == "code"

REQUIRED_PARAM_ENROLLMENT_URL == "enrollment_url"

MISSING_REQUIRED_PARAMS_MSG == "Some required parameter(s) missing: {}"

RequiredParams == <<REQUIRED_PARAM_EMAIL, REQUIRED_PARAM_ENTERPRISE_NAME,
                    REQUIRED_PARAM_CODE, REQUIRED_PARAM_ENROLLMENT_URL>>

ParamNames == {RequiredParams[i] : i \in 1..Len(RequiredParams)}

\* a key the dict does not hold
Absent == "<absent>"

ExampleValue == [k \in ParamNames |->
                    CASE k = REQUIRED_PARAM_EMAIL -> "bob@alice.com"
                      [] k = REQUIRED_PARAM_ENTERPRISE_NAME -> "IBM"
                      [] k = REQUIRED_PARAM_CODE -> "LEWHBGDYT"
                      [] OTHER -> "http://tempurl.url/enroll"]

\* request.data holds a value, an empty value or nothing under each key;
\* request.query_params holds a value or nothing
Requests ==
    {[data |-> d, query_params |-> q] :
        d \in {f \in [ParamNames -> {"<absent>", "", "bob@alice.com", "IBM",
                                     "LEWHBGDYT", "http://tempurl.url/enroll"}] :
                  \A k \in ParamNames : f[k] \in {Absent, "", ExampleValue[k]}},
        q \in {f \in [ParamNames -> {"<absent>", "bob@alice.com", "IBM",
                                     "LEWHBGDYT", "http://tempurl.url/enroll"}] :
                  \A k \in ParamNames : f[k] \in {Absent, ExampleValue[k]}}}

\* dict.get(key, default)
get(dict, key, default) == IF dict[key] = Absent THEN default ELSE dict[key]

bool(value) == value # ""

Raised(exception) == [raised |-> exception]

IsRaised(r) == "raised" \in DOMAIN r

\* "def get_request_value(request, key, default=None)": the positional
\* parameters the function accepts
get_request_value_parameters == 3

\* "self.get_request_value(request, self.REQUIRED_PARAM_..., '')": the bound
\* method passes self and the three arguments
get_request_value_arguments == 4

\* the body of get_request_value
get_request_value(request, key, default) ==
    get(request.data, key, get(request.query_params, key, default))

\* the call self.get_request_value(request, key, default)
call_get_request_value(request, key, default) ==
    IF get_request_value_arguments > get_request_value_parameters
    THEN Raised("TypeError")
    ELSE [value |-> get_request_value(request, key, default)]

\* ', '.join(name for name, present in parameter_state if not present)
get_missing_params_message(parameter_state) ==
    [template |-> MISSING_REQUIRED_PARAMS_MSG,
     params   |-> SelectSeq(parameter_state, LAMBDA p : ~p.present)]

get_required_query_params(request) ==
    LET user_email      == call_get_request_value(request, REQUIRED_PARAM_EMAIL, "")
        enterprise_name == call_get_request_value(request, REQUIRED_PARAM_ENTERPRISE_NAME, "")
        code            == call_get_request_value(request, REQUIRED_PARAM_CODE, "")
        enrollment_url  == call_get_request_value(request, REQUIRED_PARAM_ENROLLMENT_URL, "")
    IN  IF IsRaised(user_email) THEN user_email
        ELSE IF IsRaised(enterprise_name) THEN enterprise_name
        ELSE IF IsRaised(code) THEN code
        ELSE IF IsRaised(enrollment_url) THEN enrollment_url
        ELSE IF ~(bool(user_email.value) /\ bool(enterprise_name.value)
                  /\ bool(code.value) /\ bool(enrollment_url.value))
        THEN [raised  |-> "BadRequestException",
              message |-> get_missing_params_message(
                 <<[name |-> REQUIRED_PARAM_EMAIL, present |-> bool(user_email.value)],
                   [name |-> REQUIRED_PARAM_ENTERPRISE_NAME, present |-> bool(enterprise_name.value)],
                   [name |-> REQUIRED_PARAM_CODE, present |-> bool(code.value)],
                   [name |-> REQUIRED_PARAM_ENROLLMENT_URL, present |-> bool(enrollment_url.value)]>>)]
        ELSE [user_email |-> user_email.value,
              enterprise_name |-> enterprise_name.value,
              code |-> code.value,
              enrollment_url |-> enrollment_url.value]

\* the names the module binds at import
ModuleNames == {"logging", "SMTPException", "apps", "mail", "status",
                "IsAuthenticated", "Response", "APIView", "BadRequestException",
                "logger", "AssignmentEmail"}

\* the names post() has bound when it builds the subject line and the data
PostLocals == {"self", "request", "user_email", "enterprise_name", "code",
               "enrollment_url", "subject_line", "body_msg", "app_config",
               "from_email_address"}

IsBound(name) == name \in ModuleNames \cup PostLocals

Response(data, status) == [raised |-> "", status |-> status, data |-> data, sent |-> <<>>]

Unhandled(exception) == [raised |-> exception, status |-> 0, data |-> None, sent |-> <<>>]

\* transport_ok: whether mail.send_mail gets the message out
post_handler(request, transport_ok) ==
    LET params == get_required_query_params(request)
    IN  IF IsRaised(params)
        THEN IF params.raised = "BadRequestException"
             THEN Response([error |-> params.message], 400)
             ELSE Unhandled(params.raised)
        ELSE IF ~IsBound("_") THEN Unhandled("NameError")
        ELSE IF ~IsBound("email") THEN Unhandled("NameError")
        ELSE IF transport_ok
             THEN [raised |-> "", status |-> 200,
                   data |-> [user_email |-> params.user_email,
                             enterprise_name |-> params.enterprise_name,
                             code |-> params.code,
                             enrollment_url |-> params.enrollment_url],
                   sent |-> <<[to |-> <<params.user_email>>,
                               enterprise_name |-> params.enterprise_name,
                               code |-> params.code,
                               enrollment_url |-> params.enrollment_url]>>]
             ELSE Response([error |-> "Assignment code email could not be sent"], 500)

post(request, transport_ok) ==
    /\ posts < MaxPosts
    /\ LET r == post_handler(request, transport_ok)
       IN  /\ outbox' = outbox \o r.sent
           /\ last_post' = [request |-> request, transport_ok |-> transport_ok,
                            raised |-> r.raised, status |-> r.status,
                            data |-> r.data, sent |-> r.sent]
    /\ posts' = posts + 1
    /\ UNCHANGED paypal_vars

NextEmail == \E request \in Requests, transport_ok \in BOOLEAN :
                post(request, transport_ok)

SpecEmail == Init /\ [][NextEmail]_vars

(***************************************************************************)
(* Properties                                                              *)
(***************************************************************************)
KindsOf(trace, kind) == {i \in DOMAIN trace : trace[i].kind = kind}

GatewayCalls(trace) == SelectSeq(trace, LAMBDA e : e.kind = "gateway")

LastEntry == audit[Len(audit)]

ApprovalLinks(links) == {i \in DOMAIN links : links[i].rel = "approval_url"}

IsPair(result) == DOMAIN result = {"source", "event"}

\* C1: every initiate or confirm call the gateway answers appends exactly one
\* audit record, appends it before a GatewayError leaves the call, and leaves
\* the earlier audit records as they were.
C1_OneAuditRecordPerCall ==
    [][calls' # calls =>
        /\ Len(audit') = Len(audit) + 1
        /\ SubSeq(audit', 1, Len(audit)) = audit
        /\ Cardinality(KindsOf(last'.trace, "record")) = 1
        /\ \A i \in DOMAIN last'.trace :
              last'.trace[i] = Event("raise", "GatewayError") =>
                 \E j \in 1..(i - 1) : last'.trace[j].kind = "record"]_vars

C1_Witness ==
    /\ last.op = "confirm"
    /\ last.outcome = "GatewayError"
    /\ Len(audit) = 2
    /\ audit[1].transaction_id \in PaymentIds

\* C2: the (source, event) pairs handed out are as many as the confirm calls
\* whose execute the gateway reported successful; initiate hands out none and
\* a confirm that ends in GatewayError hands out none.
C2_PairPerSuccessfulExecute ==
    /\ Len(pairs) = executed
    /\ last.op = "initiate" => ~IsPair(last.result)
    /\ last.outcome = "GatewayError" => ~IsPair(last.result)

\* C3: when the gateway reports the create as failed, initiate raises
\* GatewayError, returns nothing, and the audit record of the call carries the
\* error's debug_id and the basket.
C3_CreateFailure ==
    (last.op = "initiate" /\ ~last.answer.ok) =>
        /\ last.outcome = "GatewayError"
        /\ last.result = None
        /\ LastEntry.transaction_id = last.answer.error.debug_id
        /\ LastEntry.basket = last.basket

C3_Witness ==
    /\ last.op = "initiate"
    /\ ~last.answer.ok
    /\ last.answer.error.debug_id = "ERR1"
    /\ Len(audit) >= 1

\* C4: when the create succeeded but no link has rel "approval_url" (the link
\* list may be empty), initiate raises GatewayError and returns nothing, and
\* the audit record of the successful response, under the payment id, was
\* written before the error.
C4_MissingApprovalUrl ==
    (last.op = "initiate" /\ last.answer.ok /\ ApprovalLinks(last.answer.links) = {}) =>
        /\ last.outcome = "GatewayError"
        /\ last.result = None
        /\ LastEntry.transaction_id = last.answer.id
        /\ LastEntry.response.id = last.answer.id
        /\ LastEntry.response.links = last.answer.links
        /\ \E i, j \in DOMAIN last.trace :
              /\ i < j
              /\ last.trace[i] = Event("record", last.answer.id)
              /\ last.trace[j] = Event("raise", "GatewayError")

C4_Witness ==
    /\ last.op = "initiate"
    /\ last.answer.ok
    /\ last.answer.links # <<>>
    /\ ApprovalLinks(last.answer.links) = {}
    /\ last.outcome = "GatewayError"

\* C5: when the create succeeded and a link has rel "approval_url", initiate
\* returns a mapping with the single key payment_page_url, whose value is the
\* href of the first such link in response order.
C5_ApprovalUrlReturned ==
    (last.op = "initiate" /\ last.answer.ok /\ ApprovalLinks(last.answer.links) # {}) =>
        LET first == CHOOSE i \in ApprovalLinks(last.answer.links) :
                        \A j \in ApprovalLinks(last.answer.links) : i <= j
        IN  /\ last.outcome = "returned"
            /\ DOMAIN last.result = {"payment_page_url"}
            /\ last.result.payment_page_url = last.answer.links[first].href

C5_Witness ==
    /\ last.op = "initiate"
    /\ last.outcome = "returned"
    /\ Cardinality(ApprovalLinks(last.answer.links)) = 2
    /\ last.answer.links[1].href # last.answer.links[2].href

\* C6: the creation payload has intent "sale" and one transaction: its total
\* reads as the basket's tax-inclusive total, its currency is the basket's,
\* its items are the basket lines in order (quantity, title, tax-inclusive
\* price, currency) and its invoice number reads as the basket id.
C6_CreationPayload ==
    last.op = "initiate" =>
        LET data  == last.data
            lines == last.basket.lines
        IN  /\ data.intent = "sale"
            /\ Len(data.transactions) = 1
            /\ Decimal(data.transactions[1].amount.total) = last.basket.total_incl_tax
            /\ data.transactions[1].amount.currency = last.basket.currency
            /\ Len(data.transactions[1].item_list.items) = Len(lines)
            /\ \A i \in 1..Len(lines) :
                  LET item == data.transactions[1].item_list.items[i]
                  IN  /\ item.quantity = lines[i].quantity
                      /\ item.name = lines[i].product.title
                      /\ Decimal(item.price) = lines[i].price_incl_tax
                      /\ item.currency = lines[i].stockrecord.price_currency
            /\ Decimal(data.transactions[1].invoice_number) = Dec(0, last.basket.id, 0)

C6_Witness ==
    /\ last.op = "initiate"
    /\ Len(last.basket.lines) = 2
    /\ last.data.transactions[1].amount.total = <<"2", "5", ".", "1", "0">>
    /\ last.data.transactions[1].item_list.items[2].price = <<"0", ".", "0", "5">>
    /\ last.data.transactions[1].invoice_number = <<"7">>

\* C7: the Source a successful confirm returns has amount_allocated =
\* amount_debited = the total of the first transaction, that transaction's
\* currency, the payment id as reference, the payer email as label and no
\* card type; the PaymentEvent has the same amount and reference, event type
\* "paid" and the processor's name.
C7_SourceAndEvent ==
    (last.op = "confirm" /\ last.outcome = "returned") =>
        LET source == last.result.source
            event  == last.result.event
            first  == last.answer.gateway.transactions[1]
        IN  /\ DecimalStr(source.amount_allocated) = first.amount.total
            /\ source.amount_debited = source.amount_allocated
            /\ source.currency = first.amount.currency
            /\ source.reference = last.answer.query.paymentId
            /\ source.label = last.answer.gateway.payer.payer_info.email
            /\ source.card_type = None
            /\ event.amount = source.amount_allocated
            /\ event.reference = source.reference
            /\ event.event_type = "paid"
            /\ event.processor_name = "paypal"

C7_Witness ==
    /\ last.op = "confirm"
    /\ last.outcome = "returned"
    /\ Len(last.answer.gateway.transactions) = 2
    /\ last.answer.gateway.transactions[1] # last.answer.gateway.transactions[2]
    /\ last.result.source.amount_debited = Dec(0, 10, -2)

\* C8: a confirm called without a basket whose execute the gateway reports
\* successful records its audit record, without a basket, and returns the
\* (source, event) pair.
C8_BasketOptional ==
    (last.op = "confirm" /\ last.basket = None /\ last.answer.gateway.ok) =>
        /\ LastEntry.basket = None
        /\ last.outcome = "returned"
        /\ IsPair(last.result)

\* the value the endpoint reads for a parameter
Supplied(request, key) ==
    IF request.data[key] # Absent THEN request.data[key]
    ELSE IF request.query_params[key] # Absent THEN request.query_params[key]
    ELSE ""

Missing(request) == {k \in ParamNames : Supplied(request, k) = ""}

\* C9: a POST lacking any of the four parameters is answered 400 with a
\* message naming exactly the missing ones and no email; a POST with all four
\* sends one email to user_email and is answered 200 with the four values, or
\* 500 when the transport fails.
C9_AssignmentEmailPost ==
    last_post # None =>
        LET request == last_post.request
        IN  IF Missing(request) # {}
            THEN /\ last_post.status = 400
                 /\ {last_post.data.error.params[i].name :
                        i \in DOMAIN last_post.data.error.params} = Missing(request)
                 /\ last_post.sent = <<>>
            ELSE IF last_post.transport_ok
                 THEN /\ last_post.status = 200
                      /\ last_post.data = [k \in ParamNames |-> Supplied(request, k)]
                      /\ Len(last_post.sent) = 1
                      /\ last_post.sent[1].to = <<Supplied(request, "user_email")>>
                 ELSE last_post.status = 500

\* C10 as stated: every call makes exactly one outbound call to the gateway.
C10_OneGatewayCall ==
    last.op # "none" => Len(GatewayCalls(last.trace)) = 1

\* C10: initiate makes one outbound call (create); confirm makes two, one find
\* and then one execute; neither repeats a call, and nothing is asked of the
\* gateway once it has reported a failure.
C10_GatewayCallsPerCall ==
    /\ last.op = "initiate" =>
          GatewayCalls(last.trace) = <<Event("gateway", "create")>>
    /\ last.op = "confirm" =>
          GatewayCalls(last.trace) = <<Event("gateway", "find"), Event("gateway", "execute")>>
    /\ \A i \in KindsOf(last.trace, "gateway"), j \in KindsOf(last.trace, "record") : i < j

C10_Witness ==
    /\ last.op = "confirm"
    /\ ~last.answer.gateway.ok
    /\ last.outcome = "GatewayError"
    /\ Len(GatewayCalls(last.trace)) = 2

====
